---- MODULE Spec2Model ----
(***************************************************************************)
(* A model of src/orchestrator_v5.py: the retry-protected completion call  *)
(* (chat), the guardrail functions (split_posts, enforce_three,            *)
(* trim_to_limit, has_cta, ensure_cta, role_critic, role_reviser), and the *)
(* pipeline run_pipeline that sequences planner, worker, critic, reviser   *)
(* and persistence.                                                        *)
(*                                                                         *)
(* A text is a sequence of characters.  A character is a one-character     *)
(* string; the two non-ASCII characters of the source are written as the   *)
(* tokens ELLIPSIS and EMDASH, each standing for one character.            *)
(***************************************************************************)
EXTENDS Integers, Sequences, FiniteSets, TLC

ELLIPSIS == "U+2026"
EMDASH == "U+2014"

\* ------------------------------------------------------------------------
\* Characters and Python string primitives
\* ------------------------------------------------------------------------

\* The characters str.strip(), str.isspace() and the regex class \s remove
\* or match, among the characters of the model.
SpaceChars == {" ", "\t", "\n"}

DigitChars == {"0", "1", "2", "3", "4", "5", "6", "7", "8", "9"}

LowerChars ==
    {"a", "b", "c", "d", "e", "f", "g", "h", "i", "j", "k", "l", "m",
     "n", "o", "p", "q", "r", "s", "t", "u", "v", "w", "x", "y", "z"}

\* str.lower() and re.IGNORECASE, on the upper-case letters.
LowerMap ==
    "A" :> "a" @@ "B" :> "b" @@ "C" :> "c" @@ "D" :> "d" @@ "E" :> "e" @@
    "F" :> "f" @@ "G" :> "g" @@ "H" :> "h" @@ "I" :> "i" @@ "J" :> "j" @@
    "K" :> "k" @@ "L" :> "l" @@ "M" :> "m" @@ "N" :> "n" @@ "O" :> "o" @@
    "P" :> "p" @@ "Q" :> "q" @@ "R" :> "r" @@ "S" :> "s" @@ "T" :> "t" @@
    "U" :> "u" @@ "V" :> "v" @@ "W" :> "w" @@ "X" :> "x" @@ "Y" :> "y" @@
    "Z" :> "z"

UpperChars == DOMAIN LowerMap

LowerChar(c) == IF c \in UpperChars THEN LowerMap[c] ELSE c

\* The regex class \w.
IsWordChar(c) == c \in LowerChars \/ c \in UpperChars \/ c \in DigitChars \/ c = "_"

IsSpace(c) == c \in SpaceChars

Max(a, b) == IF a >= b THEN a ELSE b

Min(a, b) == IF a <= b THEN a ELSE b

\* The least element of a non-empty set of integers.
Least(S) == CHOOSE x \in S : \A y \in S : x <= y

\* s.lower()
lower(s) == [i \in 1..Len(s) |-> LowerChar(s[i])]

\* s[:n] of Python: the first n characters, and for a negative n all but the
\* last -n characters.
PySlice(s, n) ==
    IF n >= 0 THEN SubSeq(s, 1, Min(n, Len(s)))
    ELSE SubSeq(s, 1, Max(0, Len(s) + n))

\* Whether pat occurs in s at (1-based) position i.
MatchAt(s, i, pat) ==
    /\ i >= 1
    /\ i + Len(pat) - 1 <= Len(s)
    /\ \A k \in 1..Len(pat) : s[i + k - 1] = pat[k]

\* pat in s
Contains(s, pat) == \E i \in 1..(Len(s) - Len(pat) + 1) : MatchAt(s, i, pat)

\* The first position at or after i that holds no whitespace (Len(s)+1 when
\* there is none): where a greedy \s* that starts at i ends.
SkipSpace(s, i) ==
    IF i > Len(s) THEN i
    ELSE CHOOSE p \in i..(Len(s) + 1) :
            /\ p = Len(s) + 1 \/ ~IsSpace(s[p])
            /\ \A q \in i..(p - 1) : IsSpace(s[q])

\* The last position at or before i that holds no whitespace (0 when none).
SkipSpaceBack(s, i) ==
    IF i < 1 THEN i
    ELSE CHOOSE p \in 0..i :
            /\ p = 0 \/ ~IsSpace(s[p])
            /\ \A q \in (p + 1)..i : IsSpace(s[q])

\* s.rstrip()
rstrip(s) == SubSeq(s, 1, SkipSpaceBack(s, Len(s)))

\* s.strip()
strip(s) == SubSeq(s, SkipSpace(s, 1), SkipSpaceBack(s, Len(s)))

\* The highest 1-based position p with lo <= p <= hi and s[p] = c, or 0.
LastAt(s, c, lo, hi) ==
    IF \E p \in lo..hi : s[p] = c
    THEN CHOOSE p \in lo..hi : s[p] = c /\ \A q \in (p + 1)..hi : s[q] # c
    ELSE 0

\* text.rfind(c, start, end) for 0 <= start: the highest 0-based index i
\* with start <= i < end and text[i] = c, or -1.
rfind(text, c, start, end) ==
    LastAt(text, c, start + 1, Min(end, Len(text))) - 1

\* The positions of the line breaks of s.
Breaks(s) == {i \in 1..Len(s) : s[i] = "\n"}

\* The position of the first line break at or after i, or Len(s)+1.
LineEnd(s, i) ==
    LET later == {j \in Breaks(s) : j >= i}
    IN  IF later = {} THEN Len(s) + 1 ELSE Least(later)

\* s.splitlines() from position i on.
RECURSIVE LinesFrom(_, _)
LinesFrom(s, i) ==
    IF i > Len(s) THEN << >>
    ELSE LET e == LineEnd(s, i)
         IN  <<SubSeq(s, i, e - 1)>> \o LinesFrom(s, e + 1)

\* s.splitlines()
splitlines(s) == LinesFrom(s, 1)

\* "\n".join(posts)
RECURSIVE JoinLines(_)
JoinLines(posts) ==
    IF posts = << >> THEN << >>
    ELSE IF Len(posts) = 1 THEN posts[1]
    ELSE posts[1] \o <<"\n">> \o JoinLines(Tail(posts))

\* Whether position i of s is the start of a line (the regex ^ under
\* re.MULTILINE).
AtLineStart(s, i) == i = 1 \/ (i >= 2 /\ i <= Len(s) + 1 /\ s[i - 1] = "\n")

\* Whether position k of s holds a word character.
WordAt(s, k) == k >= 1 /\ k <= Len(s) /\ IsWordChar(s[k])

\* The regex \b between positions i-1 and i of s.
WordBoundary(s, i) == WordAt(s, i - 1) # WordAt(s, i)

\* The non-empty members of a sequence, in order ([p for p in posts if p]).
RECURSIVE NonEmpty(_)
NonEmpty(seq) ==
    IF seq = << >> THEN << >>
    ELSE IF seq[1] # << >> THEN <<seq[1]>> \o NonEmpty(Tail(seq))
    ELSE NonEmpty(Tail(seq))

\* s.isdigit() on the characters of the model: non-empty, digits only.
isdigit(s) == s # << >> /\ \A i \in 1..Len(s) : s[i] \in DigitChars

\* Whether pat (lower case) occurs in s at position i, letter case ignored.
MatchAtCI(s, i, pat) ==
    /\ i >= 1
    /\ i + Len(pat) - 1 <= Len(s)
    /\ \A k \in 1..Len(pat) : LowerChar(s[i + k - 1]) = pat[k]

\* ------------------------------------------------------------------------
\* Guardrails: sanitize
\* ------------------------------------------------------------------------

THINK_WORD == <<"t", "h", "i", "n", "k">>

\* THINK_RE's opening tag <\s*think\s*> at position i: the position after
\* it, or 0 when it does not match there.
OpenTagEnd(s, i) ==
    IF i < 1 \/ i > Len(s) \/ s[i] # "<" THEN 0
    ELSE LET k == SkipSpace(s, i + 1)
             g == SkipSpace(s, k + Len(THINK_WORD))
         IN  IF MatchAtCI(s, k, THINK_WORD) /\ g <= Len(s) /\ s[g] = ">"
             THEN g + 1 ELSE 0

\* THINK_RE's closing tag <\s*/\s*think\s*> at position j: the position
\* after it, or 0.
CloseTagEnd(s, j) ==
    IF j < 1 \/ j > Len(s) \/ s[j] # "<" THEN 0
    ELSE LET k == SkipSpace(s, j + 1)
             w == SkipSpace(s, k + 1)
             g == SkipSpace(s, w + Len(THINK_WORD))
         IN  IF /\ k <= Len(s) /\ s[k] = "/"
                /\ MatchAtCI(s, w, THINK_WORD)
                /\ g <= Len(s) /\ s[g] = ">"
             THEN g + 1 ELSE 0

\* The closing tags at or after position from.
ClosersFrom(s, from) == {j \in from..Len(s) : CloseTagEnd(s, j) > 0}

\* THINK_RE.sub("", s) from position from on: the leftmost opening tag that
\* a closing tag follows is removed up to the first such closing tag
\* (.*? is lazy and, under re.DOTALL, crosses lines), and the scan goes on
\* after it.
RECURSIVE StripThinkFrom(_, _)
StripThinkFrom(s, from) ==
    LET opens == {i \in from..Len(s) :
                    /\ OpenTagEnd(s, i) > 0
                    /\ ClosersFrom(s, OpenTagEnd(s, i)) # {}}
    IN  IF opens = {} THEN SubSeq(s, from, Len(s))
        ELSE LET i == Least(opens)
                 j == Least(ClosersFrom(s, OpenTagEnd(s, i)))
             IN  SubSeq(s, from, i - 1) \o StripThinkFrom(s, CloseTagEnd(s, j))

META_LABELS ==
    { <<"p", "l", "a", "n", "n", "e", "r">>,
      <<"w", "o", "r", "k", "e", "r">>,
      <<"c", "r", "i", "t", "i", "c">>,
      <<"r", "e", "v", "i", "s", "e", "r">>,
      <<"l", "o", "g">> }

\* META_RE ^\s*\[(?:PLANNER|WORKER|CRITIC|REVISER|LOG)\].*$ at the line start
\* i: the position after the match (the end of the label's line), or 0.
\* \s* also crosses line breaks, so blank lines before the label are part
\* of the match.
MetaMatchEnd(s, i) ==
    IF ~AtLineStart(s, i) THEN 0
    ELSE LET k == SkipSpace(s, i)
             labels == {lab \in META_LABELS :
                          /\ MatchAtCI(s, k + 1, lab)
                          /\ k + 1 + Len(lab) <= Len(s)
                          /\ s[k + 1 + Len(lab)] = "]"}
         IN  IF k <= Len(s) /\ s[k] = "[" /\ labels # {}
             THEN LineEnd(s, k)
             ELSE 0

\* META_RE.sub("", s) from position from on.
RECURSIVE StripMetaFrom(_, _)
StripMetaFrom(s, from) ==
    LET starts == {i \in from..Len(s) : MetaMatchEnd(s, i) > 0}
    IN  IF starts = {} THEN SubSeq(s, from, Len(s))
        ELSE LET i == Least(starts)
             IN  SubSeq(s, from, i - 1) \o StripMetaFrom(s, MetaMatchEnd(s, i))

sanitize(text) == strip(StripMetaFrom(StripThinkFrom(text, 1), 1))

\* ------------------------------------------------------------------------
\* Guardrails: split_posts, enforce_three, trim_to_limit, has_cta, ensure_cta
\* ------------------------------------------------------------------------

\* The position after the run of digits that starts at i.
SkipDigits(s, i) ==
    IF i > Len(s) THEN i
    ELSE CHOOSE p \in i..(Len(s) + 1) :
            /\ p = Len(s) + 1 \/ s[p] \notin DigitChars
            /\ \A q \in i..(p - 1) : s[q] \in DigitChars

\* The numbering pattern (?:^\s*\d+[\).\-]\s*|\n\s*\d+[\).\-]\s*) at
\* position i: the position after the match, or 0.  Both alternatives read
\* whitespace, digits, one separator and whitespace; the first starts at a
\* line start, the second at a line break.
NumberingEnd(s, i) ==
    IF i < 1 \/ i > Len(s) THEN 0
    ELSE IF ~(AtLineStart(s, i) \/ s[i] = "\n") THEN 0
    ELSE LET k == SkipSpace(s, i)
             d == SkipDigits(s, k)
         IN  IF d > k /\ d <= Len(s) /\ s[d] \in {")", ".", "-"}
             THEN SkipSpace(s, d + 1) ELSE 0

\* re.split(numbering, s) from position from on: the pieces between the
\* leftmost non-overlapping matches.
RECURSIVE NumberingSplitFrom(_, _)
NumberingSplitFrom(s, from) ==
    LET starts == {i \in from..Len(s) : NumberingEnd(s, i) > 0}
    IN  IF starts = {} THEN <<SubSeq(s, from, Len(s))>>
        ELSE LET i == Least(starts)
             IN  <<SubSeq(s, from, i - 1)>> \o NumberingSplitFrom(s, NumberingEnd(s, i))

\* [f(x) for x in seq]: every member stripped.
StripAll(seq) == [i \in 1..Len(seq) |-> strip(seq[i])]

\* [s for s in parts if s and not s.strip().isdigit()]
RECURSIVE DropDigitParts(_)
DropDigitParts(parts) ==
    IF parts = << >> THEN << >>
    ELSE IF parts[1] # << >> /\ ~isdigit(strip(parts[1]))
         THEN <<parts[1]>> \o DropDigitParts(Tail(parts))
         ELSE DropDigitParts(Tail(parts))

\* split_posts with the line-based split kept only for more than 3 lines.
split_posts_MoreThanThree(text) ==
    LET lines == NonEmpty(StripAll(splitlines(text)))
    IN  IF Len(lines) > 3 THEN lines
        ELSE NonEmpty(StripAll(DropDigitParts(NumberingSplitFrom(text, 1))))

split_posts(text) ==
    LET lines == NonEmpty(StripAll(splitlines(text)))
    IN  IF Len(lines) >= 3 THEN lines
        ELSE NonEmpty(StripAll(DropDigitParts(NumberingSplitFrom(text, 1))))

FALLBACK_POST ==
    <<"J", "o", "i", "n", " ", "o", "u", "r", " ", "m", "a", "i", "l", "i",
      "n", "g", " ", "l", "i", "s", "t", " ", "f", "o", "r", " ", "u", "p",
      "d", "a", "t", "e", "s", ":", " ", "h", "t", "t", "p", "s", ":", "/",
      "/", "t", "r", "i", "e", "b", "o", "l", "d", "i", "n", "s", "t", "i",
      "t", "u", "t", "e", ".", "o", "r", "g", "/", "j", "o", "i", "n">>

\* enforce_three keeping the last 3 posts instead of the first 3.
enforce_three_LastThree(posts) ==
    LET kept == NonEmpty(posts)
        cut == IF Len(kept) > 3 THEN SubSeq(kept, Len(kept) - 2, Len(kept)) ELSE kept
    IN  cut \o [i \in 1..(3 - Len(cut)) |-> FALLBACK_POST]

enforce_three(posts) ==
    LET kept == NonEmpty(posts)
        cut == IF Len(kept) > 3 THEN SubSeq(kept, 1, 3) ELSE kept
    IN  cut \o [i \in 1..(3 - Len(cut)) |-> FALLBACK_POST]

\* trim_to_limit searching for the space up to and including index limit-1.
trim_to_limit_Inclusive(text, limit) ==
    IF Len(text) <= limit THEN text
    ELSE LET cut == rfind(text, " ", 0, Max(0, limit))
         IN  IF cut # -1 THEN rstrip(PySlice(text, cut) \o <<ELLIPSIS>>)
             ELSE rstrip(PySlice(text, limit - 1) \o <<ELLIPSIS>>)

trim_to_limit(text, limit) ==
    IF Len(text) <= limit THEN text
    ELSE LET cut == rfind(text, " ", 0, Max(0, limit - 1))
         IN  IF cut # -1 THEN rstrip(PySlice(text, cut) \o <<ELLIPSIS>>)
             ELSE rstrip(PySlice(text, limit - 1) \o <<ELLIPSIS>>)

JOIN_LINK ==
    <<"t", "r", "i", "e", "b", "o", "l", "d", "i", "n", "s", "t", "i", "t",
      "u", "t", "e", ".", "o", "r", "g", "/", "j", "o", "i", "n">>

W_JOIN == <<"j", "o", "i", "n">>
W_MAIL == <<"m", "a", "i", "l">>
W_ING == <<"i", "n", "g">>
W_LIST == <<"l", "i", "s", "t">>
W_SIGN == <<"s", "i", "g", "n">>
W_UP == <<"u", "p">>
W_SUBSCRIBE == <<"s", "u", "b", "s", "c", "r", "i", "b", "e">>

\* \s*list\b at position k.
ListAt(s, k) ==
    LET g == SkipSpace(s, k)
    IN  MatchAt(s, g, W_LIST) /\ WordBoundary(s, g + Len(W_LIST))

\* \bmail(ing)?\s*list\b at position j.
MailListAt(s, j) ==
    /\ MatchAt(s, j, W_MAIL)
    /\ WordBoundary(s, j)
    /\ \/ (MatchAt(s, j + Len(W_MAIL), W_ING) /\ ListAt(s, j + Len(W_MAIL) + Len(W_ING)))
       \/ ListAt(s, j + Len(W_MAIL))

\* re.search(r"\bjoin\b.*\bmail(ing)?\s*list\b", s): the . matches no line
\* break.
JoinMailList(s) ==
    \E i \in 1..Len(s) :
        /\ MatchAt(s, i, W_JOIN)
        /\ WordBoundary(s, i)
        /\ WordBoundary(s, i + Len(W_JOIN))
        /\ \E j \in (i + Len(W_JOIN))..Len(s) :
              /\ MailListAt(s, j)
              /\ \A k \in (i + Len(W_JOIN))..(j - 1) : s[k] # "\n"

\* re.search(r"\b(sign\s*up|subscribe)\b", s)
SignUpOrSubscribe(s) ==
    \E i \in 1..Len(s) :
        /\ WordBoundary(s, i)
        /\ \/ /\ MatchAt(s, i, W_SIGN)
              /\ LET g == SkipSpace(s, i + Len(W_SIGN))
                 IN  MatchAt(s, g, W_UP) /\ WordBoundary(s, g + Len(W_UP))
           \/ /\ MatchAt(s, i, W_SUBSCRIBE)
              /\ WordBoundary(s, i + Len(W_SUBSCRIBE))

has_cta(p) ==
    LET s == lower(p)
    IN  Contains(s, JOIN_LINK) \/ JoinMailList(s) \/ SignUpOrSubscribe(s)

HTTP == <<"h", "t", "t", "p", ":", "/", "/">>
HTTPS == <<"h", "t", "t", "p", "s", ":", "/", "/">>

\* URL_RE.search(p): https?://\S+
HasUrl(p) ==
    \E i \in 1..Len(p) :
        \/ MatchAt(p, i, HTTP) /\ i + Len(HTTP) <= Len(p) /\ ~IsSpace(p[i + Len(HTTP)])
        \/ MatchAt(p, i, HTTPS) /\ i + Len(HTTPS) <= Len(p) /\ ~IsSpace(p[i + Len(HTTPS)])

SUFFIX_SHORT ==
    <<" ", EMDASH, " ", "J", "o", "i", "n", " ", "o", "u", "r", " ", "m",
      "a", "i", "l", "i", "n", "g", " ", "l", "i", "s", "t", ".">>

SUFFIX_LINK ==
    <<" ", EMDASH, " ", "J", "o", "i", "n", " ", "o", "u", "r", " ", "m",
      "a", "i", "l", "i", "n", "g", " ", "l", "i", "s", "t", ":", " ", "h",
      "t", "t", "p", "s", ":", "/", "/", "t", "r", "i", "e", "b", "o", "l",
      "d", "i", "n", "s", "t", "i", "t", "u", "t", "e", ".", "o", "r", "g",
      "/", "j", "o", "i", "n">>

PostLimit == 280

\* ensure_cta's loop body appending the suffix without making room for it.
EnsureCtaPost_NoRoom(p) ==
    IF has_cta(p)
    THEN IF Len(p) <= PostLimit THEN p ELSE trim_to_limit(p, PostLimit)
    ELSE p \o (IF HasUrl(p) THEN SUFFIX_SHORT ELSE SUFFIX_LINK)

\* The body of ensure_cta's loop, for one post.
EnsureCtaPost(p) ==
    IF has_cta(p)
    THEN IF Len(p) <= PostLimit THEN p ELSE trim_to_limit(p, PostLimit)
    ELSE LET suffix == IF HasUrl(p) THEN SUFFIX_SHORT ELSE SUFFIX_LINK
             q == IF Len(p) + Len(suffix) > PostLimit
                  THEN trim_to_limit(p, PostLimit - Len(suffix))
                  ELSE p
         IN  IF Len(q) + Len(suffix) <= PostLimit THEN q \o suffix
             ELSE trim_to_limit(q \o suffix, PostLimit)

ensure_cta(posts) == [i \in 1..Len(posts) |-> EnsureCtaPost(posts[i])]

\* [trim_to_limit(p, 280) for p in posts]
TrimAll(posts) == [i \in 1..Len(posts) |-> trim_to_limit(posts[i], PostLimit)]

\* ------------------------------------------------------------------------
\* Roles: critic and reviser
\* ------------------------------------------------------------------------

MSG_LEN == "One or more posts exceed 280 chars."
MSG_CTA == "Each post must include a clear CTA (Join/Sign up/Subscribe or /join link)."
MsgCount(n) == "Expected 3 posts; got " \o ToString(n) \o "."

\* A role_critic that reports the call-to-action before the length.
role_critic_CtaFirst(deliverable) ==
    LET posts == enforce_three(split_posts(deliverable))
        ok_len == \A i \in 1..Len(posts) : Len(posts[i]) <= PostLimit
        ok_cta == \A i \in 1..Len(posts) : has_cta(posts[i])
        ok_cnt == Len(posts) = 3
    IN  [ok |-> ok_len /\ ok_cta /\ ok_cnt,
         feedback |-> (IF ~ok_cnt THEN <<MsgCount(Len(posts))>> ELSE << >>)
                      \o (IF ~ok_cta THEN <<MSG_CTA>> ELSE << >>)
                      \o (IF ~ok_len THEN <<MSG_LEN>> ELSE << >>),
         posts |-> posts]

role_critic(deliverable) ==
    LET posts == enforce_three(split_posts(deliverable))
        ok_len == \A i \in 1..Len(posts) : Len(posts[i]) <= PostLimit
        ok_cta == \A i \in 1..Len(posts) : has_cta(posts[i])
        ok_cnt == Len(posts) = 3
    IN  [ok |-> ok_len /\ ok_cta /\ ok_cnt,
         feedback |-> (IF ~ok_cnt THEN <<MsgCount(Len(posts))>> ELSE << >>)
                      \o (IF ~ok_len THEN <<MSG_LEN>> ELSE << >>)
                      \o (IF ~ok_cta THEN <<MSG_CTA>> ELSE << >>),
         posts |-> posts]

\* The posts role_reviser joins: trimmed, given a call-to-action, trimmed.
RevisedPosts(posts) == TrimAll(ensure_cta(TrimAll(posts)))

role_reviser(posts, feedback) == JoinLines(RevisedPosts(posts))

\* ------------------------------------------------------------------------
\* Inputs: configuration and endpoint responses
\* ------------------------------------------------------------------------

\* RETRY.tries of config.json is any count from 0 to MaxTries.
MaxTries == 3

\* A worker response has up to MaxLines lines.
MaxLines == 4

\* RETRY.backoff_sec, in seconds.
BACKOFF == 2

\* RETRY.tries when config.json does not set it.
DEFAULT_TRIES == 3

GOAL == "Draft a 3-post intro"
PLANNER_MODEL == "planner-model"
WORKER_MODEL == "worker-model"

\* n copies of the character c.
Rep(c, n) == [i \in 1..n |-> c]

\* k copies of the text w, one after the other.
Times(w, k) == [i \in 1..(k * Len(w)) |-> w[((i - 1) % Len(w)) + 1]]

T_SIGN_UP_NOW ==
    <<"S", "i", "g", "n", " ", "u", "p", " ", "n", "o", "w">>
T_BIG_NEWS ==
    <<"B", "i", "g", " ", "n", "e", "w", "s", " ", "t", "o", "d", "a", "y">>
T_SUBSCRIBE_SP ==
    <<"S", "u", "b", "s", "c", "r", "i", "b", "e", " ">>
T_SUBSCRIBERS ==
    <<"-", "s", "u", "b", "s", "c", "r", "i", "b", "e", "r", "s">>
T_HTTPS_FOO ==
    <<"h", "t", "t", "p", "s", ":", "/", "/", " ", "f", "o", "o">>
T_SEE_URL ==
    <<"S", "e", "e", " ", "h", "t", "t", "p", ":", "/", "/", "x", ".", "c",
      "o", " ", "t", "o", "d", "a", "y">>
T_NUM_SIGN_UP ==
    <<"1", ".", " ", "S", "i", "g", "n", " ", "u", "p">>
T_NUM_LOG ==
    <<"2", ")", " ", "[", "L", "O", "G", "]", " ", "h", "i">>
T_META ==
    <<"[", "w", "o", "r", "k", "e", "r", "]", " ", "n", "o", "t", "e">>
T_THINK_OPEN ==
    <<"<", "t", "h", "i", "n", "k", ">", "p", "l", "a", "n">>
T_THINK_CLOSE ==
    <<"m", "o", "r", "e", "<", "/", "t", "h", "i", "n", "k", ">", "S", "u",
      "b", "s", "c", "r", "i", "b", "e">>
T_INDENTED ==
    <<" ", " ", "S", "u", "b", "s", "c", "r", "i", "b", "e", " ", "\t">>
T_WORD_SP ==
    <<"w", "o", "r", "d", " ">>
T_JOIN_LIST ==
    <<" ", "J", "o", "i", "n", " ", "t", "h", "e", " ", "m", "a", "i", "l",
      "i", "n", "g", " ", "l", "i", "s", "t">>
T_PLAN_1 ==
    <<"1", ".", " ", "D", "r", "a", "f", "t">>
T_PLAN_2 ==
    <<"2", ".", " ", "P", "o", "s", "t">>

\* Lines a worker response is made of.  The two common lines: a short post
\* with a call-to-action, and a short post without one.
CommonLines == {T_SIGN_UP_NOW, T_BIG_NEWS}

\* A post of exactly 280 characters with a call-to-action.
L_FULL == T_SUBSCRIBE_SP \o Rep("a", PostLimit - Len(T_SUBSCRIBE_SP))
\* 281 characters, the call-to-action first.
L_OVER == T_SUBSCRIBE_SP \o Rep("a", PostLimit + 1 - Len(T_SUBSCRIBE_SP))
\* 302 characters, the call-to-action last.
L_CTA_LAST == Times(T_WORD_SP, 56) \o T_JOIN_LIST
\* 300 characters, no call-to-action, no URL: words, and one unbroken run.
L_PLAIN == Times(T_WORD_SP, 60)
L_UNBROKEN == Rep("a", 300)
\* 311 characters, none of them a space, no call-to-action: the word
\* "subscribers" lies across position 279.
L_SUBSCRIBERS == Rep("a", 269) \o T_SUBSCRIBERS \o Rep("b", 30)
\* 312 characters, no call-to-action, no URL: "https://" is followed by a
\* space, which lies at position 278.
L_HTTPS == Times(<<"a", " ">>, 135) \o T_HTTPS_FOO \o Rep("b", 30)
\* A URL and no call-to-action: short, and 281 characters.
L_URL == T_SEE_URL
L_URL_LONG == T_SEE_URL \o <<" ">> \o Times(T_WORD_SP, 52)
\* Numbered lines, a line of digits, a role-label line, a reasoning block
\* over two lines, a line with blanks around it, a blank line.
L_NUM == T_NUM_SIGN_UP
L_NUM_LOG == T_NUM_LOG
L_DIGITS == <<"1", "2">>
L_META == T_META
L_THINK == T_THINK_OPEN \o <<"\n">> \o T_THINK_CLOSE
L_INDENTED == T_INDENTED
L_BLANK == << >>
\* Two posts with a blank line between them.
L_GAP == T_SIGN_UP_NOW \o <<"\n", " ", "\n">> \o T_SIGN_UP_NOW

SpecialLines ==
    {L_FULL, L_OVER, L_CTA_LAST, L_PLAIN, L_UNBROKEN, L_SUBSCRIBERS, L_HTTPS,
     L_URL, L_URL_LONG, L_NUM, L_NUM_LOG, L_DIGITS, L_META, L_THINK,
     L_INDENTED, L_BLANK, L_GAP}

\* The raw content of a worker response: one line of any kind, before or
\* after up to MaxLines - 1 copies of one common line, joined by line
\* breaks; or nothing at all.
WorkerRaws ==
    {<< >>} \cup
    {JoinLines(IF front THEN <<sp>> \o Rep(c, k) ELSE Rep(c, k) \o <<sp>>) :
        sp \in SpecialLines \cup CommonLines, c \in CommonLines,
        k \in 0..(MaxLines - 1), front \in BOOLEAN}

\* The raw content of a planner response.
PlannerRaws ==
    {JoinLines(<<T_PLAN_1, T_PLAN_2>>), JoinLines(<<L_THINK, T_PLAN_1>>)}

\* The ways one request fails: a status other than 200, a transport fault,
\* a body without choices[0].message.content.
FailKinds == {"status", "fault", "malformed"}

\* What a failed request carries: an error page, nothing, a stray body.
FailBody(kind) ==
    IF kind = "status" THEN <<"5", "0", "2">>
    ELSE IF kind = "malformed" THEN <<"{", "}">>
    ELSE << >>

\* ------------------------------------------------------------------------
\* Files and the version-control repository
\* ------------------------------------------------------------------------

\* A file tree (the working tree, the index, the tree of a commit) is a
\* function from the paths of the files it holds to their contents.  The
\* paths: the deliverable and the transcript of the n-th save, the task
\* list and the ledger.  save_text and save_json name a file by the second
\* it is written in; the saves of the model happen in different seconds.
OutPath(n) == <<"out", n>>
LogPath(n) == <<"logs", n>>
TASKS_F == <<"tasks.jsonl", 0>>
STATE_F == <<"state.json", 0>>

\* OUT_DIR and LOG_DIR.
ArtifactDirs == {"out", "logs"}

EmptyTree == [p \in {} |-> 0]

\* Whether two trees agree on a path: both lack it or both hold the same
\* content.
Same(t1, t2, p) ==
    /\ (p \in DOMAIN t1) <=> (p \in DOMAIN t2)
    /\ p \in DOMAIN t1 /\ p \in DOMAIN t2 => t1[p] = t2[p]

\* The tree t with path p written, and with the paths of S removed.
Put(t, p, v) == [q \in DOMAIN t \cup {p} |-> IF q = p THEN v ELSE t[q]]
Drop(t, S) == [q \in DOMAIN t \ S |-> t[q]]

\* The paths of t in directory d.
FilesIn(t, d) == {p \in DOMAIN t : p[1] = d}

\* The paths a .gitignore that lists out/ and logs/ hides from git.
Ignored(ignore, p) == ignore /\ p[1] \in ArtifactDirs

\* git add <path>: the index takes the file's content from the working
\* tree; a path that is ignored or does not exist is refused.
GitAdd(ignore, idx, wtree, p) ==
    IF p \in DOMAIN wtree /\ ~Ignored(ignore, p) THEN Put(idx, p, wtree[p]) ELSE idx

\* git add . : every file of the working tree that is not ignored.
GitAddAll(ignore, idx, wtree) ==
    [p \in DOMAIN idx \cup {q \in DOMAIN wtree : ~Ignored(ignore, q)} |->
        IF p \in DOMAIN wtree /\ ~Ignored(ignore, p) THEN wtree[p] ELSE idx[p]]

\* git checkout from the commit with tree h to the commit with tree t.  The
\* paths on which the two commits differ are rewritten in the index and in
\* the working tree; git refuses the whole checkout when one of them
\* carries a local change (staged, unstaged or an untracked file in the
\* way).  Paths on which the commits agree keep their local state.
Differing(h, t) == {p \in DOMAIN h \cup DOMAIN t : ~Same(h, t, p)}

CheckoutRefused(h, t, idx, wtree) ==
    \E p \in Differing(h, t) : ~(Same(idx, h, p) /\ Same(wtree, idx, p))

Switched(h, t, tree) ==
    [p \in (DOMAIN tree \ Differing(h, t)) \cup (DOMAIN t \cap Differing(h, t)) |->
        IF p \in Differing(h, t) THEN t[p] ELSE tree[p]]

\* The directories left after that checkout: git makes the directory of a
\* file it writes, and removes a directory when it removes the last file in
\* it.
DirsAfterSwitch(h, t, wtree, ds) ==
    {d \in ArtifactDirs :
        \/ FilesIn(Switched(h, t, wtree), d) # {}
        \/ d \in ds /\ FilesIn(wtree, d) \ DOMAIN Switched(h, t, wtree) = {}}

\* What git commit prints when it fails, in lower or mixed case as git
\* prints it: nothing staged and nothing else to report; nothing staged
\* but untracked files present; a lock held by another git process.
GIT_CLEAN ==
    <<"n", "o", "t", "h", "i", "n", "g", " ", "t", "o", " ", "c", "o", "m",
      "m", "i", "t", ",", " ", "w", "o", "r", "k", "i", "n", "g", " ", "t",
      "r", "e", "e", " ", "c", "l", "e", "a", "n">>
GIT_UNTRACKED ==
    <<"n", "o", "t", "h", "i", "n", "g", " ", "a", "d", "d", "e", "d", " ",
      "t", "o", " ", "c", "o", "m", "m", "i", "t", " ", "b", "u", "t", " ",
      "u", "n", "t", "r", "a", "c", "k", "e", "d", " ", "f", "i", "l", "e",
      "s", " ", "p", "r", "e", "s", "e", "n", "t">>
GIT_LOCKED ==
    <<"f", "a", "t", "a", "l", ":", " ", "U", "n", "a", "b", "l", "e", " ",
      "t", "o", " ", "c", "r", "e", "a", "t", "e", " ", "'", ".", "g", "i",
      "t", "/", "i", "n", "d", "e", "x", ".", "l", "o", "c", "k", "'", ":",
      " ", "F", "i", "l", "e", " ", "e", "x", "i", "s", "t", "s", ".">>
NOTHING_TO_COMMIT ==
    <<"n", "o", "t", "h", "i", "n", "g", " ", "t", "o", " ", "c", "o", "m",
      "m", "i", "t">>

\* ------------------------------------------------------------------------
\* Task records, task ids and branch names
\* ------------------------------------------------------------------------

\* A JSON value found under a key of a task record: a string, a number
\* (written by its digits), or nothing under that key.
J_MISSING == [t |-> "missing", v |-> << >>]
JStr(s) == [t |-> "str", v |-> s]
JNum(digits) == [t |-> "num", v |-> digits]

\* Python's truth value of such a value: None, "" and 0 are false.
Truthy(j) ==
    \/ j.t = "str" /\ j.v # << >>
    \/ j.t = "num" /\ j.v # <<"0">>

\* A line of tasks.jsonl: blank, not JSON, JSON that is no object (a list,
\* a number), or an object with what it holds under "id" and "goal".
BlankLine == [kind |-> "blank", id |-> J_MISSING, goal |-> J_MISSING]
InvalidLine == [kind |-> "invalid", id |-> J_MISSING, goal |-> J_MISSING]
ArrayLine == [kind |-> "array", id |-> J_MISSING, goal |-> J_MISSING]
TaskLine(id, goal) == [kind |-> "object", id |-> id, goal |-> goal]

\* task_id_for(goal): the first 12 hex digits of the SHA-1 of the goal.  The
\* digest is written as the goal behind a mark: equal goals have equal
\* digests and different goals different ones.
task_id_for(goal) == <<"#">> \o goal

\* The characters [a-zA-Z0-9].
IsAlnum(c) == c \in LowerChars \/ c \in UpperChars \/ c \in DigitChars

\* s without the leading and trailing characters that are in cs.
StripChars(s, cs) ==
    LET keep == {i \in 1..Len(s) : s[i] \notin cs}
    IN  IF keep = {} THEN << >>
        ELSE SubSeq(s, CHOOSE i \in keep : \A j \in keep : i <= j,
                       CHOOSE i \in keep : \A j \in keep : j <= i)

\* re.sub(r"[^a-zA-Z0-9]+", "-", s): every run of other characters becomes
\* one hyphen.
SubRuns(s) ==
    LET heads == {i \in 1..Len(s) : IsAlnum(s[i]) \/ i = 1 \/ IsAlnum(s[i - 1])}
        at(j) == CHOOSE i \in heads : Cardinality({k \in heads : k <= i}) = j
    IN  [j \in 1..Cardinality(heads) |-> IF IsAlnum(s[at(j)]) THEN s[at(j)] ELSE "-"]

SLUG_MAXLEN == 40
SLUG_DEFAULT ==
    <<"t", "a", "s", "k">>

slugify(s) ==
    LET r == StripChars(SubRuns(lower(strip(s))), {"-"})
        c == StripChars(SubSeq(r, 1, Min(Len(r), SLUG_MAXLEN)), {"-"})
    IN  IF c = << >> THEN SLUG_DEFAULT ELSE c

\* The branch of a goal: task/<task_id_for(goal)>-<slugify(goal)>.
BranchName(goal) == [tid |-> task_id_for(goal), slug |-> slugify(goal)]

\* The base branch.
BASE == [tid |-> << >>, slug |-> <<"m", "a", "i", "n">>]

\* What run_queue does with one line, up to the test against the processed
\* set: skip it, fail on it, or take a task (its goal and its id) from it.
ReadLine(line) ==
    IF line.kind = "blank" THEN [act |-> "skip", why |-> "blank"]
    ELSE IF line.kind = "invalid" THEN [act |-> "skip", why |-> "invalid JSON"]
    ELSE IF line.kind # "object" THEN [act |-> "raise", why |-> "AttributeError"]
    ELSE IF Truthy(line.goal) /\ line.goal.t # "str"
         THEN [act |-> "raise", why |-> "AttributeError"]
    ELSE LET goal == IF Truthy(line.goal) THEN strip(line.goal.v) ELSE << >>
         IN  IF goal = << >> THEN [act |-> "skip", why |-> "without goal"]
             ELSE [act |-> "task", goal |-> goal,
                   tid |-> IF Truthy(line.id) THEN line.id
                           ELSE JStr(task_id_for(goal))]

\* ------------------------------------------------------------------------
\* State
\* ------------------------------------------------------------------------

VARIABLES
    tries,        \* TRIES, from the configuration
    pc,           \* where run_pipeline is: start, planner, worker, critic,
                  \* reviser, persist, done, failed
    error,        \* the exception that ended the run, or "none"
    chat_status,  \* the chat call in progress: idle, running, returned,
                  \* raised, returned_none
    attempt,      \* chat's loop variable
    slept,        \* the waits of this chat call, in order
    resp,         \* the latest response of this chat call
    result,       \* what chat returned: <<text, data>>, or << >>
    outcomes,     \* this chat call's requests, in order: TRUE for one
                  \* answered with status 200 and a well-formed body
    calls,        \* the chat calls made, in order
    transcript,   \* transcript["steps"]
    plan,         \* run_pipeline's locals
    work,
    ok,
    feedback,
    posts,
    out_files,    \* the texts save_text wrote, in order
    log_files,    \* the transcripts save_json wrote, in order
    probe,        \* the call under test of the function specifications
    dirs,         \* which of OUT_DIR and LOG_DIR exist
    wt,           \* the working tree: the files on disk
    ignore,       \* whether .gitignore lists out/ and logs/
    index,        \* git's index
    tips,         \* the tree of the latest commit of every branch
    head,         \* the branch checked out
    commits,      \* the commits made, in order
    qpc,          \* where run_queue is: off, loop, checkout, pipeline,
                  \* commit, add, done, fatal
    drains,       \* how many times run_queue has been started
    file_lines,   \* the lines of the task list as run_queue opened it
    pos,          \* how many of them the loop has consumed
    goal,         \* run_queue's locals
    tid,
    processed,
    loaded,       \* the processed ids load_state returned
    runs,         \* the ids run_pipeline was called for in this drain
    doomed,       \* the artifacts written for tasks that then failed
    prior,        \* how the drain before this one ended, the task list it
                  \* read, and the commits and saves made before this one
    last_commit,  \* the task, the exit status and the output of the latest
                  \* git commit of commit_artifacts in this drain
    mark          \* the commits and saves made before the latest pipeline
                  \* run of this drain began

chat_vars == <<chat_status, attempt, slept, resp, result, outcomes, calls>>
run_vars == <<pc, error, transcript, plan, work, ok, feedback, posts, out_files, log_files>>
disk_vars == <<dirs, wt>>
git_vars == <<ignore, index, tips, head, commits>>
drain_vars == <<qpc, drains, file_lines, pos, goal, tid, processed, loaded, runs, doomed>>
hist_vars == <<prior, last_commit, mark>>
queue_vars == <<disk_vars, git_vars, drain_vars, hist_vars>>
vars == <<tries, chat_vars, run_vars, probe, queue_vars>>

NoResp == [kind |-> "none", body |-> << >>]
NoProbe == [fn |-> "none"]
NoBranch == [tid |-> << >>, slug |-> << >>]
NoId == J_MISSING
NoPrior == [end |-> "off", lines |-> << >>, ledger |-> {}, commits |-> 0, saves |-> 0]
NoCommit == [tid |-> NoId, rc |-> 0, output |-> << >>]
NoMark == [commits |-> 0, saves |-> 0, logs |-> 0]

\* No repository, no run_queue call: the state of a fresh working
\* directory, where the program has made OUT_DIR and LOG_DIR.
QueueOff ==
    /\ dirs = ArtifactDirs
    /\ ignore = FALSE
    /\ index = EmptyTree
    /\ tips = EmptyTree
    /\ head = NoBranch
    /\ commits = << >>
    /\ qpc = "off"
    /\ drains = 0
    /\ file_lines = << >>
    /\ pos = 0
    /\ goal = << >>
    /\ tid = NoId
    /\ processed = {}
    /\ loaded = {}
    /\ runs = << >>
    /\ doomed = {}
    /\ prior = NoPrior
    /\ last_commit = NoCommit
    /\ mark = NoMark

\* The state run_pipeline starts in, for a given configuration.
RunInit ==
    /\ pc = "start"
    /\ error = "none"
    /\ chat_status = "idle"
    /\ attempt = 0
    /\ slept = << >>
    /\ resp = NoResp
    /\ result = << >>
    /\ outcomes = << >>
    /\ calls = << >>
    /\ transcript = << >>
    /\ plan = << >>
    /\ work = << >>
    /\ ok = FALSE
    /\ feedback = << >>
    /\ posts = << >>
    /\ out_files = << >>
    /\ log_files = << >>

Init ==
    /\ tries \in 0..MaxTries
    /\ RunInit
    /\ probe = NoProbe
    /\ QueueOff
    /\ wt = EmptyTree

\* ------------------------------------------------------------------------
\* chat
\* ------------------------------------------------------------------------

\* The model each role calls chat with.
ModelOf(role) == IF role = "planner" THEN PLANNER_MODEL ELSE WORKER_MODEL

\* chat is entered: the loop runs over range(1, TRIES + 1).  With no
\* iteration to run, the function ends without a return statement and the
\* caller's unpacking of None raises TypeError.
EnterChat(role) ==
    /\ calls' = Append(calls, [role |-> role, model |-> ModelOf(role)])
    /\ outcomes' = << >>
    /\ slept' = << >>
    /\ resp' = NoResp
    /\ result' = << >>
    /\ IF 1 <= tries
       THEN /\ attempt' = 1
            /\ chat_status' = "running"
            /\ pc' = role
            /\ error' = error
       ELSE /\ attempt' = attempt
            /\ chat_status' = "returned_none"
            /\ pc' = "failed"
            /\ error' = "TypeError"

\* One iteration of the loop whose request is answered with status 200 and
\* a well-formed body: chat returns the sanitized content and the data.
ChatOk(raw) ==
    /\ chat_status = "running"
    /\ outcomes' = Append(outcomes, TRUE)
    /\ resp' = [kind |-> "ok", body |-> raw]
    /\ result' = <<sanitize(raw), raw>>
    /\ chat_status' = "returned"
    /\ UNCHANGED <<tries, attempt, slept, calls, run_vars, probe, queue_vars>>

\* The failing iteration with the retry test attempt <= TRIES in a loop that
\* has no bound of its own: one request too many.
ChatFail_RetryLast(kind) ==
    /\ chat_status = "running"
    /\ outcomes' = Append(outcomes, FALSE)
    /\ resp' = [kind |-> kind, body |-> FailBody(kind)]
    /\ IF attempt <= tries
       THEN /\ slept' = Append(slept, BACKOFF * attempt)
            /\ attempt' = attempt + 1
            /\ UNCHANGED <<chat_status, pc, error>>
       ELSE /\ chat_status' = "raised"
            /\ pc' = "failed"
            /\ error' = "RuntimeError"
            /\ UNCHANGED <<attempt, slept>>
    /\ UNCHANGED <<tries, result, calls, transcript, plan, work, ok, feedback,
                   posts, out_files, log_files, probe, queue_vars>>

\* The failing iteration of a chat that, at the last attempt, returns an
\* empty text where it should raise.
ChatFail_ReturnsEmpty(kind) ==
    /\ chat_status = "running"
    /\ outcomes' = Append(outcomes, FALSE)
    /\ resp' = [kind |-> kind, body |-> FailBody(kind)]
    /\ IF attempt < tries
       THEN /\ slept' = Append(slept, BACKOFF * attempt)
            /\ attempt' = attempt + 1
            /\ UNCHANGED <<chat_status, result>>
       ELSE /\ chat_status' = "returned"
            /\ result' = <<<< >>, << >>>>
            /\ UNCHANGED <<attempt, slept>>
    /\ UNCHANGED <<tries, pc, error, calls, transcript, plan, work, ok, feedback,
                   posts, out_files, log_files, probe, queue_vars>>

\* The failing iteration of a chat that waits the same time before every
\* retry.
ChatFail_ConstantWait(kind) ==
    /\ chat_status = "running"
    /\ outcomes' = Append(outcomes, FALSE)
    /\ resp' = [kind |-> kind, body |-> FailBody(kind)]
    /\ IF attempt < tries
       THEN /\ slept' = Append(slept, BACKOFF)
            /\ attempt' = attempt + 1
            /\ UNCHANGED <<chat_status, pc, error>>
       ELSE /\ chat_status' = "raised"
            /\ pc' = "failed"
            /\ error' = "RuntimeError"
            /\ UNCHANGED <<attempt, slept>>
    /\ UNCHANGED <<tries, result, calls, transcript, plan, work, ok, feedback,
                   posts, out_files, log_files, probe, queue_vars>>

\* One iteration of the loop whose request fails: the handler sleeps and
\* the loop goes on, or, at the last attempt, raises.
ChatFail(kind) ==
    /\ chat_status = "running"
    /\ outcomes' = Append(outcomes, FALSE)
    /\ resp' = [kind |-> kind, body |-> FailBody(kind)]
    /\ IF attempt < tries
       THEN /\ slept' = Append(slept, BACKOFF * attempt)
            /\ attempt' = attempt + 1
            /\ UNCHANGED <<chat_status, pc, error>>
       ELSE /\ chat_status' = "raised"
            /\ pc' = "failed"
            /\ error' = "RuntimeError"
            /\ UNCHANGED <<attempt, slept>>
    /\ UNCHANGED <<tries, result, calls, transcript, plan, work, ok, feedback,
                   posts, out_files, log_files, probe, queue_vars>>

\* ------------------------------------------------------------------------
\* run_pipeline
\* ------------------------------------------------------------------------

\* role_planner(goal) is called.
CallPlanner ==
    /\ pc = "start"
    /\ EnterChat("planner")
    /\ UNCHANGED <<tries, transcript, plan, work, ok, feedback, posts,
                   out_files, log_files, probe, queue_vars>>

\* role_planner returned: its step is appended and role_worker is called.
PlannerDone ==
    /\ pc = "planner"
    /\ chat_status = "returned"
    /\ plan' = result[1]
    /\ transcript' = Append(transcript, [role |-> "planner", response |-> result[1],
                                         raw |-> result[2]])
    /\ EnterChat("worker")
    /\ UNCHANGED <<tries, work, ok, feedback, posts, out_files, log_files, probe, queue_vars>>

\* role_worker returned: its step is appended.  chat's locals are gone.
WorkerDone ==
    /\ pc = "worker"
    /\ chat_status = "returned"
    /\ work' = result[1]
    /\ transcript' = Append(transcript, [role |-> "worker", response |-> result[1],
                                         raw |-> result[2]])
    /\ chat_status' = "idle"
    /\ attempt' = 0
    /\ slept' = << >>
    /\ resp' = NoResp
    /\ result' = << >>
    /\ outcomes' = << >>
    /\ pc' = "critic"
    /\ UNCHANGED <<tries, calls, error, plan, ok, feedback, posts, out_files,
                   log_files, probe, queue_vars>>

\* A critic step after which the deliverable is persisted whatever the
\* verdict.
Critic_NeverRepairs ==
    /\ pc = "critic"
    /\ LET v == role_critic(work)
       IN  /\ ok' = v.ok
           /\ feedback' = v.feedback
           /\ posts' = v.posts
           /\ transcript' = Append(transcript, [role |-> "critic", ok |-> v.ok,
                                                feedback |-> v.feedback,
                                                parsed_posts |-> v.posts])
           /\ pc' = "persist"
    /\ UNCHANGED <<tries, chat_vars, error, plan, work, out_files, log_files, probe, queue_vars>>

\* role_critic(work), and its step.
Critic ==
    /\ pc = "critic"
    /\ LET v == role_critic(work)
       IN  /\ ok' = v.ok
           /\ feedback' = v.feedback
           /\ posts' = v.posts
           /\ transcript' = Append(transcript, [role |-> "critic", ok |-> v.ok,
                                                feedback |-> v.feedback,
                                                parsed_posts |-> v.posts])
           /\ pc' = IF v.ok THEN "persist" ELSE "reviser"
    /\ UNCHANGED <<tries, chat_vars, error, plan, work, out_files, log_files, probe, queue_vars>>

\* if not ok: role_reviser(posts, feedback), its step, and work = revised.
Reviser ==
    /\ pc = "reviser"
    /\ LET revised == role_reviser(posts, feedback)
       IN  /\ transcript' = Append(transcript, [role |-> "reviser", response |-> revised])
           /\ work' = revised
    /\ pc' = "persist"
    /\ UNCHANGED <<tries, chat_vars, error, plan, ok, feedback, posts, out_files,
                   log_files, probe, queue_vars>>

\* save_text("social-intro", sanitize(work)) and save_json(..., transcript).
\* Path.write_text raises FileNotFoundError when the directory is gone.
Persist ==
    /\ pc = "persist"
    /\ IF "out" \notin dirs
       THEN /\ pc' = "failed"
            /\ error' = "FileNotFoundError"
            /\ UNCHANGED <<out_files, log_files, wt>>
       ELSE /\ out_files' = Append(out_files, sanitize(work))
            /\ IF "logs" \notin dirs
               THEN /\ pc' = "failed"
                    /\ error' = "FileNotFoundError"
                    /\ wt' = Put(wt, OutPath(Len(out_files) + 1), "text")
                    /\ UNCHANGED log_files
               ELSE /\ pc' = "done"
                    /\ error' = error
                    /\ log_files' = Append(log_files, transcript)
                    /\ wt' = Put(Put(wt, OutPath(Len(out_files) + 1), "text"),
                                 LogPath(Len(log_files) + 1), "json")
    /\ UNCHANGED <<tries, chat_vars, transcript, plan, work, ok, feedback,
                   posts, probe, dirs, git_vars, drain_vars, hist_vars>>

Next ==
    \/ CallPlanner
    \/ \E raw \in (IF pc = "planner" THEN PlannerRaws ELSE WorkerRaws) : ChatOk(raw)
    \/ \E kind \in FailKinds : ChatFail(kind)
    \/ PlannerDone
    \/ WorkerDone
    \/ Critic
    \/ Reviser
    \/ Persist

Spec == Init /\ [][Next]_vars

\* ------------------------------------------------------------------------
\* run_queue: inputs
\* ------------------------------------------------------------------------

\* run_queue is started up to MaxDrains times, on a task list of up to
\* MaxRecords lines.
MaxDrains == 2
MaxRecords == 2

G_A ==
    <<"P", "o", "s", "t", " ", "a">>
G_B ==
    <<"P", "o", "s", "t", " ", "b", "!">>
MSG_BOOTSTRAP ==
    <<"c", "h", "o", "r", "e", ":", " ", "b", "o", "o", "t", "s", "t", "r",
      "a", "p", " ", "r", "e", "p", "o">>
MSG_CONTENT ==
    <<"c", "o", "n", "t", "e", "n", "t", ":", " ">>

ID_A == JStr(<<"A">>)
ID_B == JStr(<<"B">>)

\* Task records: two tasks with ids of their own, a record with the first
\* id and the second goal, a record without id.
TaskLines ==
    {TaskLine(ID_A, JStr(G_A)), TaskLine(ID_B, JStr(G_B)),
     TaskLine(ID_A, JStr(G_B)), TaskLine(J_MISSING, JStr(G_A))}

\* Other lines: blank, not JSON, a JSON list, and records without goal,
\* with a goal of blanks, with a number as goal.
OtherLines ==
    {BlankLine, InvalidLine, ArrayLine, TaskLine(ID_B, J_MISSING),
     TaskLine(ID_B, JStr(<<" ", " ">>)), TaskLine(ID_B, JNum(<<"5">>))}

\* A task record whose id is a number.
NumberedLine == TaskLine(JNum(<<"7">>), JStr(G_B))

QueueLines == TaskLines \cup OtherLines \cup {NumberedLine}

\* The task lists run_queue is first started on: one line of any kind,
\* before or after up to MaxRecords - 1 copies of the first task record; or
\* no line at all.
TaskFiles ==
    {<< >>} \cup
    {IF front THEN <<sp>> \o Rep(TaskLine(ID_A, JStr(G_A)), k)
              ELSE Rep(TaskLine(ID_A, JStr(G_A)), k) \o <<sp>> :
        sp \in QueueLines, k \in 0..(MaxRecords - 1), front \in BOOLEAN}

\* What the endpoint answers in a drain: a plan, and a deliverable that the
\* critic does not accept.
QueuePlannerRaws == {JoinLines(<<T_PLAN_1, T_PLAN_2>>)}
QueueWorkerRaws == {T_BIG_NEWS}
QueueFailKinds == {"status"}

\* The working directory before the first drain: a task list, no ledger,
\* no repository; out/ and logs/ are empty, or hold the files of an
\* earlier run, or are listed in .gitignore.
InitQueue ==
    /\ tries = DEFAULT_TRIES
    /\ probe = NoProbe
    /\ pc = "none"
    /\ error = "none"
    /\ chat_status = "idle"
    /\ attempt = 0
    /\ slept = << >>
    /\ resp = NoResp
    /\ result = << >>
    /\ outcomes = << >>
    /\ calls = << >>
    /\ transcript = << >>
    /\ plan = << >>
    /\ work = << >>
    /\ ok = FALSE
    /\ feedback = << >>
    /\ posts = << >>
    /\ out_files = << >>
    /\ log_files = << >>
    /\ dirs = ArtifactDirs
    /\ ignore \in BOOLEAN
    /\ \E f \in TaskFiles, legacy \in BOOLEAN :
          /\ ignore => ~legacy
          /\ wt = IF legacy
                  THEN (TASKS_F :> f) @@ (OutPath(0) :> "text") @@ (LogPath(0) :> "json")
                  ELSE (TASKS_F :> f)
    /\ index = EmptyTree
    /\ tips = EmptyTree
    /\ head = NoBranch
    /\ commits = << >>
    /\ qpc = "off"
    /\ drains = 0
    /\ file_lines = << >>
    /\ pos = 0
    /\ goal = << >>
    /\ tid = NoId
    /\ processed = {}
    /\ loaded = {}
    /\ runs = << >>
    /\ doomed = {}
    /\ prior = NoPrior
    /\ last_commit = NoCommit
    /\ mark = NoMark

\* ------------------------------------------------------------------------
\* run_queue: actions
\* ------------------------------------------------------------------------

\* The processed-id set that the ledger file of a tree holds; none when
\* there is no ledger file.
Ledger(tree) == IF STATE_F \in DOMAIN tree THEN tree[STATE_F] ELSE {}

\* A load_state that starts every drain from an empty ledger.
load_state_Fresh(tree) == {}

\* load_state(): the processed ids of the ledger file, or none when the
\* file does not exist.
load_state(tree) == IF STATE_F \in DOMAIN tree THEN tree[STATE_F] ELSE {}

\* The program is started with --queue.  At import OUT_DIR and LOG_DIR are
\* made if they are missing; run_queue loads the ledger and opens the task
\* list, or returns at once when there is none.
StartQueue ==
    /\ qpc \in {"off", "done", "fatal"}
    /\ drains < MaxDrains
    /\ drains' = drains + 1
    /\ dirs' = ArtifactDirs
    /\ processed' = load_state(wt)
    /\ loaded' = load_state(wt)
    /\ IF TASKS_F \in DOMAIN wt
       THEN file_lines' = wt[TASKS_F] /\ qpc' = "loop"
       ELSE file_lines' = << >> /\ qpc' = "done"
    /\ pos' = 0
    /\ goal' = << >>
    /\ tid' = NoId
    /\ runs' = << >>
    /\ calls' = << >>
    /\ pc' = "none"
    /\ error' = "none"
    /\ chat_status' = "idle"
    /\ attempt' = 0
    /\ slept' = << >>
    /\ resp' = NoResp
    /\ result' = << >>
    /\ outcomes' = << >>
    /\ transcript' = << >>
    /\ plan' = << >>
    /\ work' = << >>
    /\ ok' = FALSE
    /\ feedback' = << >>
    /\ posts' = << >>
    /\ prior' = [end |-> qpc, lines |-> file_lines, ledger |-> Ledger(wt),
                 commits |-> Len(commits), saves |-> Len(out_files)]
    /\ last_commit' = NoCommit
    /\ mark' = NoMark
    /\ UNCHANGED <<tries, out_files, log_files, probe, wt, git_vars, doomed>>

\* Between two drains a line is appended to a task list of fewer than limit
\* lines.
AppendTask(line, limit) ==
    /\ qpc \in {"off", "done", "fatal"}
    /\ drains < MaxDrains
    /\ TASKS_F \in DOMAIN wt
    /\ Len(wt[TASKS_F]) < limit
    /\ wt' = Put(wt, TASKS_F, Append(wt[TASKS_F], line))
    /\ UNCHANGED <<tries, chat_vars, run_vars, probe, dirs, git_vars, drain_vars,
                   hist_vars>>

\* A test that never finds the id.
AlreadyProcessed_Never(t, done) == FALSE

\* if tid in processed: ... continue
AlreadyProcessed(t, done) == t \in done

\* One pass of the loop up to the call of checkout_task_branch: the line is
\* skipped, or raises, or names a task that is skipped when its id is in
\* the processed set.
ReadRecord ==
    /\ qpc = "loop"
    /\ pos < Len(file_lines)
    /\ LET r == ReadLine(file_lines[pos + 1])
       IN  IF r.act = "raise"
           THEN /\ qpc' = "fatal"
                /\ error' = r.why
                /\ UNCHANGED <<pos, goal, tid>>
           ELSE IF r.act = "task" /\ ~AlreadyProcessed(r.tid, processed)
           THEN /\ qpc' = "checkout"
                /\ goal' = r.goal
                /\ tid' = r.tid
                /\ UNCHANGED <<pos, error>>
           ELSE /\ pos' = pos + 1
                /\ UNCHANGED <<qpc, goal, tid, error>>
    /\ UNCHANGED <<tries, chat_vars, pc, transcript, plan, work, ok, feedback, posts,
                   out_files, log_files, probe, disk_vars, git_vars, drains,
                   file_lines, processed, loaded, runs, doomed, hist_vars>>

\* checkout_task_branch(goal).  A branch that does not exist is created
\* from main; when main does not exist either it is made first, with a
\* commit of everything in the working directory.  The checkout fails when
\* git refuses it, or when something outside the program blocks it; then
\* checkout_task_branch raises.  Otherwise run_pipeline is called next.
checkout_task_branch(blocked) ==
    /\ qpc = "checkout"
    /\ LET name == BranchName(goal)
           boot == name \notin DOMAIN tips /\ BASE \notin DOMAIN tips
           base_tree == GitAddAll(ignore, index, wt)
           tips1 == IF boot THEN Put(tips, BASE, base_tree) ELSE tips
           index1 == IF boot THEN base_tree ELSE index
           head1 == IF boot THEN BASE ELSE head
           commits1 == IF boot
                       THEN Append(commits, [branch |-> BASE, msg |-> MSG_BOOTSTRAP,
                                             tree |-> base_tree])
                       ELSE commits
           h == tips1[head1]
           t == IF name \in DOMAIN tips1 THEN tips1[name] ELSE tips1[BASE]
       IN  IF blocked \/ CheckoutRefused(h, t, index1, wt)
           THEN /\ tips' = tips1
                /\ index' = index1
                /\ head' = head1
                /\ commits' = commits1
                /\ qpc' = "fatal"
                /\ error' = "RuntimeError"
                /\ UNCHANGED <<pc, wt, dirs, runs, mark>>
           ELSE /\ tips' = Put(tips1, name, t)
                /\ index' = Switched(h, t, index1)
                /\ head' = name
                /\ commits' = commits1
                /\ wt' = Switched(h, t, wt)
                /\ dirs' = DirsAfterSwitch(h, t, wt, dirs)
                /\ qpc' = "pipeline"
                /\ pc' = "start"
                /\ runs' = Append(runs, tid)
                /\ mark' = [commits |-> Len(commits1), saves |-> Len(out_files),
                            logs |-> Len(log_files)]
                /\ error' = error
    /\ transcript' = << >>
    /\ plan' = << >>
    /\ work' = << >>
    /\ ok' = FALSE
    /\ feedback' = << >>
    /\ posts' = << >>
    /\ UNCHANGED <<tries, chat_vars, out_files, log_files, probe, ignore, drains,
                   file_lines, pos, goal, tid, processed, loaded, doomed, prior,
                   last_commit>>

\* A run_queue that catches what run_pipeline raises and goes on with the
\* task.
PipelineRaised_Swallowed ==
    /\ qpc = "pipeline"
    /\ pc = "failed"
    /\ qpc' = "add"
    /\ UNCHANGED <<tries, chat_vars, run_vars, probe, disk_vars, git_vars, drains,
                   file_lines, pos, goal, tid, processed, loaded, runs, doomed,
                   hist_vars>>

\* run_pipeline raised: nothing in run_queue catches it.
PipelineRaised ==
    /\ qpc = "pipeline"
    /\ pc = "failed"
    /\ qpc' = "fatal"
    /\ doomed' = doomed \cup
          {p \in {OutPath(Len(out_files))} :
              /\ error = "FileNotFoundError"
              /\ p \in DOMAIN wt
              /\ LogPath(Len(out_files)) \notin DOMAIN wt}
    /\ UNCHANGED <<tries, chat_vars, run_vars, probe, disk_vars, git_vars, drains,
                   file_lines, pos, goal, tid, processed, loaded, runs, hist_vars>>

\* What git commit prints when it does not commit.
CommitOutput(blocked, idx, wtree) ==
    IF blocked THEN GIT_LOCKED
    ELSE IF \E p \in DOMAIN wtree : p \notin DOMAIN idx /\ ~Ignored(ignore, p)
         THEN GIT_UNTRACKED
    ELSE GIT_CLEAN

\* A commit_artifacts that raises on every failed commit.
CommitRaises_AnyFailure(committed, output) == ~committed

\* if r.returncode != 0: if "nothing to commit" not in (...).lower(): raise
CommitRaises(committed, output) ==
    ~committed /\ ~Contains(lower(output), NOTHING_TO_COMMIT)

\* commit_artifacts(goal, out_path, log_path): the two artifacts, the task
\* list and the ledger are staged, whatever git add answers, and committed.
\* git commits when the index differs from the latest commit and nothing
\* blocks it.
commit_artifacts(blocked) ==
    /\ qpc = "pipeline"
    /\ pc = "done"
    /\ LET n == Len(out_files)
           staged == GitAdd(ignore,
                        GitAdd(ignore,
                          GitAdd(ignore,
                            GitAdd(ignore, index, wt, OutPath(n)),
                            wt, LogPath(n)),
                          wt, TASKS_F),
                        wt, STATE_F)
           committed == ~blocked /\ staged # tips[head]
       IN  /\ index' = staged
           /\ last_commit' =
                  [tid |-> tid, rc |-> IF committed THEN 0 ELSE 1,
                   output |-> IF committed THEN << >>
                              ELSE CommitOutput(blocked, staged, wt)]
           /\ IF committed
              THEN /\ tips' = Put(tips, head, staged)
                   /\ commits' = Append(commits, [branch |-> head,
                                                  msg |-> MSG_CONTENT \o goal,
                                                  tree |-> staged])
              ELSE UNCHANGED <<tips, commits>>
           /\ IF CommitRaises(committed, CommitOutput(blocked, staged, wt))
              THEN /\ qpc' = "fatal"
                   /\ error' = "RuntimeError"
                   /\ doomed' = doomed \cup {OutPath(n), LogPath(n)}
              ELSE /\ qpc' = "add"
                   /\ UNCHANGED <<error, doomed>>
    /\ UNCHANGED <<tries, chat_vars, pc, transcript, plan, work, ok, feedback, posts,
                   out_files, log_files, probe, disk_vars, ignore, head, drains,
                   file_lines, pos, goal, tid, processed, loaded, runs, prior,
                   mark>>

\* processed.add(tid), and the loop goes on.
AddProcessed ==
    /\ qpc = "add"
    /\ processed' = processed \cup {tid}
    /\ pos' = pos + 1
    /\ qpc' = "loop"
    /\ UNCHANGED <<tries, chat_vars, run_vars, probe, disk_vars, git_vars, drains,
                   file_lines, goal, tid, loaded, runs, doomed, hist_vars>>

\* The loop is over: state["processed"] = sorted(processed); save_state.
\* sorted raises TypeError on ids of different types.
save_state ==
    /\ qpc = "loop"
    /\ pos = Len(file_lines)
    /\ IF \E a, b \in processed : a.t # b.t
       THEN /\ qpc' = "fatal"
            /\ error' = "TypeError"
            /\ UNCHANGED wt
       ELSE /\ qpc' = "done"
            /\ wt' = Put(wt, STATE_F, processed)
            /\ error' = error
    /\ UNCHANGED <<tries, chat_vars, pc, transcript, plan, work, ok, feedback, posts,
                   out_files, log_files, probe, dirs, git_vars, drains, file_lines,
                   pos, goal, tid, processed, loaded, runs, doomed, hist_vars>>

NextQueue ==
    \/ StartQueue
    \/ \E line \in {TaskLine(ID_B, JStr(G_B))} : AppendTask(line, MaxRecords)
    \/ ReadRecord
    \/ \E blocked \in BOOLEAN : checkout_task_branch(blocked)
    \/ CallPlanner
    \/ \E raw \in (IF pc = "planner" THEN QueuePlannerRaws ELSE QueueWorkerRaws) :
          ChatOk(raw)
    \/ \E kind \in QueueFailKinds : ChatFail(kind)
    \/ PlannerDone
    \/ WorkerDone
    \/ Critic
    \/ Reviser
    \/ Persist
    \/ PipelineRaised
    \/ \E blocked \in BOOLEAN : commit_artifacts(blocked)
    \/ AddProcessed
    \/ save_state

SpecQueue == InitQueue /\ [][NextQueue]_vars

\* Drains of a task list that grows: it starts with one task record, and
\* task records of any kind are appended between the drains, up to one line
\* more than MaxRecords.
InitGrowing ==
    /\ InitQueue
    /\ \E line \in TaskLines : wt[TASKS_F] = <<line>>

NextGrowing ==
    \/ StartQueue
    \/ \E line \in TaskLines : AppendTask(line, MaxRecords + 1)
    \/ ReadRecord
    \/ \E blocked \in BOOLEAN : checkout_task_branch(blocked)
    \/ CallPlanner
    \/ \E raw \in (IF pc = "planner" THEN QueuePlannerRaws ELSE QueueWorkerRaws) :
          ChatOk(raw)
    \/ \E kind \in QueueFailKinds : ChatFail(kind)
    \/ PlannerDone
    \/ WorkerDone
    \/ Critic
    \/ Reviser
    \/ Persist
    \/ PipelineRaised
    \/ \E blocked \in BOOLEAN : commit_artifacts(blocked)
    \/ AddProcessed
    \/ save_state

SpecGrowing == InitGrowing /\ [][NextGrowing]_vars

\* ------------------------------------------------------------------------
\* The guardrail functions on their own: role_reviser and trim_to_limit
\* applied to inputs of any shape, not only to what the pipeline feeds them
\* ------------------------------------------------------------------------

\* The pipeline at rest.
Idle == tries = 0 /\ RunInit /\ QueueOff /\ wt = EmptyTree

\* A post set given to role_reviser has up to MaxPosts posts.
MaxPosts == 3

\* Post sets: one post of any kind followed by copies of one common post
\* (among them three valid posts, an empty post, a post of several lines).
PostSets ==
    {<< >>} \cup
    {<<p>> \o Rep(c, k) :
        p \in SpecialLines \cup CommonLines, c \in CommonLines, k \in 0..(MaxPosts - 1)}

InitRepair ==
    /\ Idle
    /\ \E ps \in PostSets :
          probe = [fn |-> "role_reviser", posts |-> ps, stage |-> 0,
                   out1 |-> << >>, text1 |-> << >>, out2 |-> << >>, text2 |-> << >>]

\* role_reviser(posts, feedback) is called.
Repair ==
    /\ probe.fn = "role_reviser"
    /\ probe.stage = 0
    /\ probe' = [probe EXCEPT !.stage = 1,
                              !.out1 = RevisedPosts(probe.posts),
                              !.text1 = role_reviser(probe.posts, << >>)]
    /\ UNCHANGED <<tries, chat_vars, run_vars, queue_vars>>

\* role_reviser is called again, on the posts it produced.
RepairAgain ==
    /\ probe.fn = "role_reviser"
    /\ probe.stage = 1
    /\ probe' = [probe EXCEPT !.stage = 2,
                              !.out2 = RevisedPosts(probe.out1),
                              !.text2 = role_reviser(probe.out1, << >>)]
    /\ UNCHANGED <<tries, chat_vars, run_vars, queue_vars>>

NextRepair == Repair \/ RepairAgain

SpecRepair == InitRepair /\ [][NextRepair]_vars

\* Texts of up to MaxText characters over a letter, a space and a tab, and
\* limits from 0 to MaxLimit.
MaxText == 5
MaxLimit == 5

TrimChars == {"a", " ", "\t"}
TrimTexts == UNION {[1..n -> TrimChars] : n \in 0..MaxText}

InitTrim ==
    /\ Idle
    /\ \E t \in TrimTexts, lim \in 0..MaxLimit :
          probe = [fn |-> "trim_to_limit", text |-> t, limit |-> lim,
                   done |-> FALSE, out |-> << >>]

\* trim_to_limit(text, limit) is called.
Trim ==
    /\ probe.fn = "trim_to_limit"
    /\ ~probe.done
    /\ probe' = [probe EXCEPT !.done = TRUE,
                              !.out = trim_to_limit(probe.text, probe.limit)]
    /\ UNCHANGED <<tries, chat_vars, run_vars, queue_vars>>

NextTrim == Trim

SpecTrim == InitTrim /\ [][NextTrim]_vars

\* ------------------------------------------------------------------------
\* Properties
\* ------------------------------------------------------------------------

\* The critic step is the latest step: work is the deliverable it was given
\* and ok, feedback, posts are its verdict.
CriticJustRan == pc \in {"reviser", "persist"} /\ Len(transcript) = 3

\* The non-blank lines of a text, trimmed.
TrimmedLines(text) == NonEmpty(StripAll(splitlines(text)))

\* C1: when run_pipeline completes, the deliverable handed to save_text has
\* exactly 3 lines, whatever the worker returned and whichever way the
\* critic decided.
C1_PersistedHasThreeLines ==
    pc = "done" =>
        \A i \in 1..Len(out_files) : Len(splitlines(out_files[i])) = 3

\* C2: when run_pipeline completes, every line of the persisted deliverable
\* is at most 280 characters long and has a call-to-action.
C2_PersistedLinesValid ==
    pc = "done" =>
        \A i \in 1..Len(out_files) :
            LET lines == splitlines(out_files[i])
            IN  \A j \in 1..Len(lines) :
                    Len(lines[j]) <= PostLimit /\ has_cta(lines[j])

\* C3: a deliverable of exactly 3 non-empty lines, each at most 280
\* characters and each with a call-to-action, is accepted by role_critic:
\* ok is true, the feedback is empty and the posts are the 3 trimmed lines
\* in order.
C3_ValidDeliverableAccepted ==
    CriticJustRan =>
        LET lines == TrimmedLines(work)
        IN  (/\ Len(lines) = 3
             /\ \A i \in 1..3 : Len(lines[i]) <= PostLimit /\ has_cta(lines[i]))
            => (ok /\ feedback = << >> /\ posts = lines)

\* C3's case: role_critic accepted 3 lines, the first of them exactly 280
\* characters long.
C3_Witness ==
    /\ CriticJustRan
    /\ Len(TrimmedLines(work)) = 3
    /\ ok
    /\ Len(posts[1]) = PostLimit

\* C4: the posts of role_critic's verdict are exactly 3: the first 3
\* candidates of the splitter when it yields 3 or more, and otherwise its
\* candidates followed by copies of the fallback post.
C4_VerdictHasThreePosts ==
    CriticJustRan =>
        LET cand == split_posts(work)
        IN  /\ Len(posts) = 3
            /\ \A i \in 1..3 :
                  posts[i] = IF i <= Len(cand) THEN cand[i] ELSE FALLBACK_POST

\* C4's case: the splitter yielded more than 3 candidates, and the verdict
\* holds the first 3.
C4_Witness ==
    /\ CriticJustRan
    /\ Len(split_posts(work)) > 3
    /\ split_posts(work)[4] # split_posts(work)[1]
    /\ Len(posts) = 3

\* C9: a chat call ends by returning the sanitized text and the raw data of
\* a successful attempt, or by raising after every attempt failed; it never
\* ends without a result.
C9_ChatReturnsOrRaises ==
    /\ chat_status # "returned_none"
    /\ chat_status = "returned" =>
          /\ resp.kind = "ok"
          /\ result = <<sanitize(resp.body), resp.body>>
    /\ chat_status = "raised" =>
          /\ error = "RuntimeError"
          /\ Len(outcomes) = tries
          /\ \A i \in 1..Len(outcomes) : ~outcomes[i]

\* C10: chat sends one request per attempt and at most TRIES requests, none
\* after a successful one, and exactly TRIES when every attempt fails.
C10_RequestsBounded ==
    /\ Len(outcomes) <= tries
    /\ chat_status = "running" => Len(outcomes) = attempt - 1
    /\ \A i \in 1..(Len(outcomes) - 1) : ~outcomes[i]
    /\ chat_status = "returned" =>
          Len(outcomes) = attempt /\ outcomes[Len(outcomes)]
    /\ chat_status = "raised" =>
          Len(outcomes) = tries /\ \A i \in 1..Len(outcomes) : ~outcomes[i]

\* C10's case: a call of several attempts, all failed, the last on a
\* malformed body.
C10_Witness ==
    /\ chat_status = "raised"
    /\ tries >= 2
    /\ Len(outcomes) = tries
    /\ resp.kind = "malformed"

\* A post set of 3 posts, each within the limit and with a call-to-action.
ValidPostSet(ps) ==
    /\ Len(ps) = 3
    /\ \A i \in 1..3 : Len(ps[i]) <= PostLimit /\ has_cta(ps[i])

\* C5: role_reviser is idempotent: repairing the posts it produced changes
\* nothing, and a valid 3-post set comes back unchanged, joined by single
\* line breaks.
C5_RepairIdempotent ==
    probe.fn = "role_reviser" =>
        /\ probe.stage = 2 => (probe.out2 = probe.out1 /\ probe.text2 = probe.text1)
        /\ (probe.stage >= 1 /\ ValidPostSet(probe.posts)) =>
              /\ probe.out1 = probe.posts
              /\ probe.text1 = probe.posts[1] \o <<"\n">> \o probe.posts[2]
                                 \o <<"\n">> \o probe.posts[3]

\* C5's case: a post set that the first repair changed has been repaired a
\* second time.
C5_Witness ==
    /\ probe.fn = "role_reviser"
    /\ probe.stage = 2
    /\ Len(probe.posts) = 3
    /\ probe.out1 # probe.posts
    /\ Len(probe.posts[1]) > PostLimit

\* Whether text s ends with text e.
EndsWith(s, e) ==
    Len(s) >= Len(e) /\ SubSeq(s, Len(s) - Len(e) + 1, Len(s)) = e

\* C6: every post role_reviser produces is at most 280 characters long and
\* has a call-to-action, and a post longer than 280 characters with neither
\* call-to-action nor URL comes out shorter and ending with the suffix that
\* carries the join link.
C6_RepairedPostsValid ==
    (probe.fn = "role_reviser" /\ probe.stage >= 1) =>
        \A i \in 1..Len(probe.posts) :
            /\ Len(probe.out1[i]) <= PostLimit
            /\ has_cta(probe.out1[i])
            /\ (/\ Len(probe.posts[i]) > PostLimit
                /\ ~has_cta(probe.posts[i])
                /\ ~HasUrl(probe.posts[i]))
               => (/\ Len(probe.out1[i]) < Len(probe.posts[i])
                   /\ EndsWith(probe.out1[i], SUFFIX_LINK))

\* C7: trim_to_limit returns a text of at most limit characters, for every
\* text and every limit from 0 on.
C7_TrimWithinLimit ==
    (probe.fn = "trim_to_limit" /\ probe.done) => Len(probe.out) <= probe.limit

\* The greatest element of a non-empty set of integers.
Greatest(S) == CHOOSE x \in S : \A y \in S : y <= x

\* The 0-based indices from 0 to hi at which text holds one of chars.
IndicesOf(text, chars, hi) ==
    {i \in 0..hi : i < Len(text) /\ text[i + 1] \in chars}

RerunOfCompletedDrain == prior.end = "done" /\ prior.lines = file_lines

\* C11: a drain of the same task list after a drain that completed without
\* a fatal error runs no pipeline and makes no commit, and the ledger file
\* keeps the processed ids that the earlier drain wrote.
C11_RerunDoesNothing ==
    RerunOfCompletedDrain =>
        /\ runs = << >>
        /\ Len(commits) = prior.commits
        /\ Len(out_files) = prior.saves
        /\ qpc # "fatal"
        /\ STATE_F \in DOMAIN wt
        /\ wt[STATE_F] = prior.ledger

\* C11's case: the second drain of a list of two tasks is over, after a
\* first drain that processed both.
C11_Witness ==
    /\ RerunOfCompletedDrain
    /\ qpc = "done"
    /\ Cardinality(prior.ledger) = 2
    /\ Len(commits) >= 2

\* The ids of the records of a task list that name a task.
TaskIds(list) ==
    {ReadLine(list[i]).tid : i \in {j \in 1..Len(list) : ReadLine(list[j]).act = "task"}}

\* The elements of a sequence.
Range(s) == {s[i] : i \in 1..Len(s)}

\* How many times id t occurs in the sequence s.
Count(s, t) == Cardinality({i \in 1..Len(s) : s[i] = t})

\* C12: when a drain ends without a fatal error, the pipeline has run once
\* for every id that a task record of the list carries and the ledger did
\* not hold at the start, however many records carry it, and not at all for
\* the ids the ledger held.
C12_OneRunPerNewId ==
    qpc = "done" =>
        \A t \in TaskIds(file_lines) \cup loaded \cup Range(runs) :
            Count(runs, t) = IF t \in TaskIds(file_lines) \ loaded THEN 1 ELSE 0

\* C12's case: a drain is over whose list names one new id on two records,
\* and the pipeline has run for it.
C12_Witness ==
    /\ qpc = "done"
    /\ \E i, j \in 1..Len(file_lines) :
          /\ i < j
          /\ ReadLine(file_lines[i]).act = "task"
          /\ ReadLine(file_lines[j]).act = "task"
          /\ ReadLine(file_lines[i]).tid = ReadLine(file_lines[j]).tid
          /\ ReadLine(file_lines[i]).tid \in Range(runs)
    /\ runs # << >>

\* A record of invalid structure (text that is not JSON, a value that is
\* not an object, a goal that is not a string) or without a goal or with an
\* empty one.
InvalidRecord(line) ==
    \/ line.kind \in {"invalid", "array"}
    \/ /\ line.kind = "object"
       /\ \/ line.goal = J_MISSING
          \/ line.goal.t # "str"
          \/ strip(line.goal.v) = << >>

\* The ids carried by the records of a list that are no invalid records.
ValidIds(list) ==
    {ReadLine(list[i]).tid :
        i \in {j \in 1..Len(list) : list[j].kind = "object" /\ ~InvalidRecord(list[j])}}

\* C13: a task record of invalid structure, or without a goal, never makes
\* the drain fail: the drain does not stop at it, and its id is not added to
\* the processed set.
C13_InvalidRecordsSkipped ==
    /\ \A i \in 1..Len(file_lines) :
          InvalidRecord(file_lines[i]) => ~(qpc = "fatal" /\ pos = i - 1)
    /\ processed \subseteq loaded \cup ValidIds(file_lines)

\* C14: no artifact written for a task whose processing ended in a fatal
\* error is contained in any commit, whenever and for whichever task the
\* commit was made.
C14_NoFailedArtifactCommitted ==
    \A i \in 1..Len(commits) : DOMAIN commits[i].tree \cap doomed = {}

\* C15: when git commit fails saying that there is nothing to commit,
\* commit_artifacts raises nothing and the task's id is added to the
\* processed set; when it fails in any other way, the drain ends with a
\* fatal error and the id is not added.
C15_NothingToCommitIsSuccess ==
    (last_commit.tid # NoId /\ last_commit.rc # 0) =>
        IF last_commit.output = GIT_CLEAN
        THEN \/ qpc = "add" /\ tid = last_commit.tid
             \/ last_commit.tid \in processed
        ELSE /\ qpc = "fatal"
             /\ error = "RuntimeError"
             /\ last_commit.tid \notin processed

\* C15's case: git commit failed with nothing to commit, and the task's id
\* has been added to the processed set of a drain that went on to its end.
C15_Witness ==
    /\ last_commit.tid # NoId
    /\ last_commit.rc # 0
    /\ last_commit.output = GIT_CLEAN
    /\ last_commit.tid \in processed
    /\ qpc = "done"

\* The steps of a drain in their order: the position in the loop before
\* and after each step that ends without an error.
StepOrder ==
    {<<"loop", "checkout">>, <<"checkout", "pipeline">>, <<"pipeline", "add">>,
     <<"add", "loop">>, <<"loop", "done">>}

\* While a task is handled it is the task of the record at the position of
\* the loop, and every task record before that position has its id in the
\* processed set.
TasksInFileOrder ==
    /\ qpc \in {"checkout", "pipeline", "add"} =>
          /\ pos < Len(file_lines)
          /\ ReadLine(file_lines[pos + 1]).act = "task"
          /\ ReadLine(file_lines[pos + 1]).tid = tid
          /\ ReadLine(file_lines[pos + 1]).goal = goal
          /\ tid \notin processed
    /\ \A i \in 1..pos :
          ReadLine(file_lines[i]).act = "task" => ReadLine(file_lines[i]).tid \in processed

\* One step within a drain keeps the order of the steps: the loop moves by
\* one record at most, the pipeline starts right after the checkout, the
\* commit follows the completed pipeline, and an id is added only to the
\* processed set after the commit step of its task succeeded.
StepInOrder ==
    drains' = drains =>
        /\ pos' \in {pos, pos + 1}
        /\ qpc' # qpc => (qpc' = "fatal" \/ <<qpc, qpc'>> \in StepOrder)
        /\ (qpc = "checkout" /\ qpc' = "pipeline") =>
              (pc' = "start" /\ runs' = Append(runs, tid))
        /\ runs' # runs => (qpc = "checkout" /\ qpc' = "pipeline")
        /\ (qpc = "pipeline" /\ qpc' = "add") =>
              (pc = "done" /\ last_commit'.tid = tid)
        /\ commits' # commits => qpc \in {"checkout", "pipeline"}
        /\ processed' # processed =>
              /\ qpc = "add"
              /\ processed' = processed \cup {tid}
              /\ pos' = pos + 1
              /\ last_commit.tid = tid
              /\ last_commit.rc = 0 \/ last_commit.output = GIT_CLEAN

\* C16: within a drain the tasks are handled in file order and each task
\* goes through checkout, pipeline, commit and the adding of its id in that
\* order: an id enters the processed set only after the commit step of its
\* task succeeded, and no step of a task starts before the ids of the tasks
\* before it were added.
C16_TaskStepsInOrder == []TasksInFileOrder /\ [][StepInOrder]_vars

\* C16's case: the commit of the second task of a drain has succeeded, and
\* the id of the first task is in the processed set.
C16_Witness ==
    /\ qpc = "add"
    /\ Len(runs) = 2
    /\ runs[1] \in processed
    /\ runs[2] \notin processed
    /\ last_commit.rc = 0

\* C17: the ledger file is written only when the last record has been
\* handled: when a drain has ended in a fatal error, the ledger file holds
\* the processed ids it held when the drain started.
C17_LedgerKeptOnFatalError ==
    qpc = "fatal" => Ledger(wt) = prior.ledger

\* ------------------------------------------------------------------------
\* Properties of run_pipeline and chat
\* ------------------------------------------------------------------------

\* The roles of the steps of a transcript, in order.
Roles(steps) == [i \in 1..Len(steps) |-> steps[i].role]

\* Whether sequence s is the beginning of sequence u.
IsPrefix(s, u) == Len(s) <= Len(u) /\ SubSeq(u, 1, Len(s)) = s

\* The steps of a run whose critic accepted, and of one whose critic did
\* not.
STEPS_OK == <<"planner", "worker", "critic">>
STEPS_REVISED == <<"planner", "worker", "critic", "reviser">>

\* The steps taken so far are the first steps of a run, nothing is
\* persisted before the run completes, and a completed run made two
\* completion calls, took the reviser step exactly when the verdict was not
\* ok, and persisted its deliverable and its whole transcript once.
StepsOfRun ==
    /\ IsPrefix(Roles(transcript), STEPS_REVISED)
    /\ Len(calls) <= 2
    /\ pc # "done" => (out_files = << >> /\ log_files = << >>)
    /\ pc = "done" =>
          /\ calls = <<[role |-> "planner", model |-> PLANNER_MODEL],
                       [role |-> "worker", model |-> WORKER_MODEL]>>
          /\ Roles(transcript) = IF ok THEN STEPS_OK ELSE STEPS_REVISED
          /\ transcript[3].ok = ok
          /\ out_files = <<sanitize(work)>>
          /\ log_files = <<transcript>>

\* A step of the run appends one record to the transcript or leaves it as
\* it is.
TranscriptAppended ==
    \/ transcript' = transcript
    \/ Len(transcript') = Len(transcript) + 1 /\ IsPrefix(transcript, transcript')

\* C18: a completed pipeline run has taken the planner, worker and critic
\* steps in that order with two completion calls, the first to the planner
\* model and the second to the worker model, and the reviser step exactly
\* when the verdict was not ok; the transcript holds these steps in order,
\* none removed or reordered, and is persisted with the deliverable once,
\* after the last step.
C18_StepsInOrder == []StepsOfRun /\ [][TranscriptAppended]_vars

\* C18's case: a run whose critic did not accept has completed, with four
\* steps in its transcript.
C18_Witness ==
    /\ pc = "done"
    /\ ~ok
    /\ Len(transcript) = 4
    /\ Len(log_files) = 1

\* Every attempt of the latest completion call has failed.
CallFailed ==
    /\ tries >= 1
    /\ Len(outcomes) = tries
    /\ \A i \in 1..Len(outcomes) : ~outcomes[i]

\* C19: when every attempt of a completion call has failed, the pipeline
\* run has stopped there: a failed planner call is the last call, so the
\* worker is not called; the critic and the reviser do not run; no
\* deliverable and no transcript have been persisted since the run began;
\* and the drain, which ends with the error, has made no commit since.
C19_FailedCallStopsRun ==
    CallFailed =>
        /\ chat_status = "raised"
        /\ pc = "failed"
        /\ error = "RuntimeError"
        /\ qpc \in {"pipeline", "fatal"}
        /\ Roles(transcript) \in {<< >>, <<"planner">>}
        /\ calls # << >>
        /\ calls[Len(calls)].role =
              (IF transcript = << >> THEN "planner" ELSE "worker")
        /\ Len(out_files) = mark.saves
        /\ Len(log_files) = mark.logs
        /\ Len(commits) = mark.commits
        /\ tid \notin processed

\* C19's case: the worker call of the second task of a drain has failed
\* after its retries and the drain has ended, the first task committed.
C19_Witness ==
    /\ CallFailed
    /\ qpc = "fatal"
    /\ Len(runs) = 2
    /\ Roles(transcript) = <<"planner">>
    /\ Len(slept) = DEFAULT_TRIES - 1
    /\ mark.commits >= 2

\* C20: chat waits BACKOFF * k after failed attempt k when another attempt
\* follows: one wait between two consecutive attempts, and none after the
\* last failed attempt or after a successful one.
C20_LinearBackoff ==
    /\ \A k \in 1..Len(slept) : slept[k] = BACKOFF * k /\ ~outcomes[k]
    /\ chat_status = "running" => Len(slept) = Len(outcomes)
    /\ chat_status \in {"returned", "raised"} => Len(slept) = Len(outcomes) - 1

\* C20's case: a call of three attempts has failed, after two waits of
\* BACKOFF and twice BACKOFF.
C20_Witness ==
    /\ tries = 3
    /\ slept = <<BACKOFF, BACKOFF * 2>>
    /\ chat_status = "raised"
    /\ Len(outcomes) = 3

\* C21: the id of a task that is added to the processed set is the id in
\* the name of the branch its artifacts were committed on, whether the id
\* comes from the task record or from the goal.
C21_BranchIdIsDedupId ==
    qpc = "add" => (tid.t = "str" /\ tid.v = head.tid)

\* The class a feedback message reports: 1 for the count, 2 for the length,
\* 3 for the call-to-action, 0 for any other text.
ClassOf(msg) ==
    IF msg = MSG_LEN THEN 2
    ELSE IF msg = MSG_CTA THEN 3
    ELSE IF \E n \in 0..(2 * MaxLines) : msg = MsgCount(n) THEN 1
    ELSE 0

\* C22: the feedback of role_critic holds the message of a class exactly
\* when the posts of the verdict violate it, each once, in the order count,
\* length, call-to-action; ok is true exactly when the feedback is empty,
\* and exactly when there are 3 posts, each at most 280 characters long
\* and each with a call-to-action.
C22_FeedbackPerViolatedClass ==
    CriticJustRan =>
        LET violated ==
                {c \in {1} : Len(posts) # 3}
                \cup {c \in {2} : \E i \in 1..Len(posts) : Len(posts[i]) > PostLimit}
                \cup {c \in {3} : \E i \in 1..Len(posts) : ~has_cta(posts[i])}
        IN  /\ {ClassOf(feedback[i]) : i \in 1..Len(feedback)} = violated
            /\ \A i, j \in 1..Len(feedback) :
                  i < j => ClassOf(feedback[i]) < ClassOf(feedback[j])
            /\ ok <=> feedback = << >>
            /\ ok <=> violated = {}

\* C22's case: role_critic judged posts of which one is too long and one
\* has no call-to-action, and reported both.
C22_Witness ==
    /\ CriticJustRan
    /\ ~ok
    /\ feedback = <<MSG_LEN, MSG_CTA>>

\* C23: every post of the verdict of role_critic is a single line, whatever
\* the deliverable, and the text role_reviser builds from the 3 posts has
\* exactly 3 lines.
C23_PostsAreSingleLines ==
    CriticJustRan =>
        /\ \A i \in 1..Len(posts) : Len(splitlines(posts[i])) <= 1
        /\ Len(splitlines(role_reviser(posts, feedback))) = 3

\* C24: the ledger file only grows.  When a drain has ended without a
\* fatal error the file holds the ids loaded at the start and the ids of
\* the task records of the list; and after a drain, however it ended, no
\* id that the file held before the drain is missing from it.
C24_LedgerOnlyGrows ==
    /\ qpc = "done" => Ledger(wt) = loaded \cup TaskIds(file_lines)
    /\ qpc \in {"done", "fatal"} => prior.ledger \subseteq Ledger(wt)

====
